---- MODULE Spec2Model ----
(***************************************************************************)
(* Model of deepHaven/executions.py: a ticking time table (one row per     *)
(* second) whose update() derives fourteen columns for every new row, some *)
(* from the row index ii and some from Math.random().                      *)
(*                                                                         *)
(* Numbers.  A draw of Math.random() is a point u/DrawGrid of an evenly    *)
(* spaced grid on [0,1), u in 0..DrawGrid-1.  Price is kept in 128ths      *)
(* (the code adds n/128.0 to 99.0), Yield in 100ths (3.5 + n/100.0) and    *)
(* Notional in eighths (Quantity is a whole number of millions, so         *)
(* Quantity * Price / 100.0 is a whole number of eighths).                 *)
(***************************************************************************)
EXTENDS Integers, Sequences, FiniteSets, TLC

\* ---------------------------------------------------------------- bounds
\* Number of points of the draw grid on [0,1).
DrawGrid == 200
\* Ticks of the time table that are explored.
MaxTicks == 3
\* Row indices explored by the replay runs: Base + 0..MaxOffset per base.
MaxOffset == 5

\* ------------------------------------------------------- units of the model
\* Price is counted in 1/PriceUnit.
PriceUnit == 128

\* ------------------------------------------------------------ Java helpers
\* What a lookup outside an array's bounds produces.
ArrayIndexOutOfBounds == "ArrayIndexOutOfBoundsException"

\* new String[]{...}[i]: Java arrays are 0-based and bounds-checked.
ArrayGet(arr, i) ==
    IF i \in 0..(Len(arr) - 1) THEN arr[i + 1] ELSE ArrayIndexOutOfBounds

\* Math.round(x) for x = num/den >= 0: floor(x + 1/2).
MathRound(num, den) == (2 * num + den) \div (2 * den)

\* floor(a * b / c) for a, b >= 0 and c > 0, without forming a * b.
MulDiv(a, b, c) == (a \div c) * b + ((a % c) * b) \div c

DigitChar == <<"0", "1", "2", "3", "4", "5", "6", "7", "8", "9">>

\* The decimal digits of n >= 0, most significant first.
RECURSIVE Decimal(_)
Decimal(n) ==
    IF n < 10 THEN DigitChar[n + 1]
    ELSE Decimal(n \div 10) \o DigitChar[(n % 10) + 1]

RECURSIVE Zeros(_)
Zeros(n) == IF n <= 0 THEN "" ELSE "0" \o Zeros(n - 1)

\* String.format("%0<width>d", n) for n >= 0: at least width characters,
\* padded with zeros on the left, never truncated.
StringFormat0d(width, n) ==
    LET s == Decimal(n) IN Zeros(width - Len(s)) \o s

\* ------------------------------------------------------------ fixed tables
SymbolTable == <<"UST 2Y", "UST 5Y", "UST 10Y", "UST 30Y", "SOFR 3M", "TIPS 10Y">>
CusipTable ==
    <<"91282CJL6", "91282CJM4", "91282CJN2", "912810TM0", "91282CJP7", "912810TP3">>
VenueTable == <<"D2C", "D2D", "ECN", "RFQ", "CLOB">>
CounterpartyTable == <<"GS", "JPM", "MS", "BARC", "CITI", "BofA", "HSBC", "DB">>
ExecStatusTable == <<"FILLED", "FILLED", "FILLED", "PARTIAL", "REJECTED">>
TraderTable == <<"JSMITH", "ADOE", "MWONG", "KPATEL">>
BookTable == <<"RATES-NY", "RATES-LDN", "RATES-TKY">>

\* --------------------------------------------------------- column formulas
\* Columns derived from the row index ii.
\* (variant: a fixed width of six digits, keeping the low six)
ExecIdSixDigits(ii) == "EXE-" \o StringFormat0d(6, ii % 1000000)
ExecId(ii) == "EXE-" \o StringFormat0d(6, ii)
OrderId(ii) == "ORD-" \o StringFormat0d(4, ii % 500)
SymbolIndex(ii) == ii % 6
\* (variant: the CUSIP lookup taken modulo the Venue table's length)
CusipIndexModFive(ii) == ii % 5
CusipIndex(ii) == ii % 6
Symbol(ii) == ArrayGet(SymbolTable, SymbolIndex(ii))
CUSIP(ii) == ArrayGet(CusipTable, CusipIndex(ii))
Side(ii) == IF ii % 2 = 0 THEN "BUY" ELSE "SELL"
VenueIndex(ii) == ii % 5
Venue(ii) == ArrayGet(VenueTable, VenueIndex(ii))
TraderIndex(ii) == ii % 4
Trader(ii) == ArrayGet(TraderTable, TraderIndex(ii))
BookIndex(ii) == ii % 3
Book(ii) == ArrayGet(BookTable, BookIndex(ii))

\* Columns derived from a draw u/DrawGrid of Math.random().
\* Quantity: round(U * 50 + 1) * 1_000_000; at most 51,000,000, so the
\* (int) cast does not wrap.
QuantityLots(u) == MathRound(u * 50 + DrawGrid, DrawGrid)
Quantity(u) == QuantityLots(u) * 1000000
\* Price in 128ths: 99.0 + round(U * 400) / 128.0.
PriceTicks(u) == MathRound(u * 400, DrawGrid)
Price(u) == 99 * PriceUnit + PriceTicks(u)
\* Yield in 100ths: 3.5 + round(U * 200) / 100.0.
Yield(u) == 350 + MathRound(u * 200, DrawGrid)
\* (variant: scaled by the table's length instead of its last index)
CounterpartyIndexByLength(u) == MathRound(u * 8, DrawGrid)
CounterpartyIndex(u) == MathRound(u * 7, DrawGrid)
Counterparty(u) == ArrayGet(CounterpartyTable, CounterpartyIndex(u))
ExecStatusIndex(u) == MathRound(u * 4, DrawGrid)
ExecStatus(u) == ArrayGet(ExecStatusTable, ExecStatusIndex(u))

\* Notional in eighths, from the row's Quantity and its Price (in 128ths):
\* Quantity * Price / 100.0.
Notional(quantity, price) == MulDiv(quantity, 8 * price, PriceUnit * 100)

\* The five Math.random() calls of one row, by the column that makes them.
RandomColumns == {"Quantity", "Price", "Yield", "Counterparty", "ExecStatus"}

\* A row of the fourteen derived columns; Notional, Venue and Trader are
\* passed in by Synthesize below.
Columns(ii, d, notional, venue, trader) ==
    [ ExecId |-> ExecId(ii),
      OrderId |-> OrderId(ii),
      Symbol |-> Symbol(ii),
      CUSIP |-> CUSIP(ii),
      Side |-> Side(ii),
      Quantity |-> Quantity(d.Quantity),
      Price |-> Price(d.Price),
      Yield |-> Yield(d.Yield),
      Notional |-> notional,
      Venue |-> venue,
      Counterparty |-> Counterparty(d.Counterparty),
      ExecStatus |-> ExecStatus(d.ExecStatus),
      Trader |-> trader,
      Book |-> Book(ii) ]

\* (variant: Notional from draws of its own instead of the row's Quantity
\* and Price)
SynthesizeFreshNotional(ii, d) ==
    Columns(ii, d, Notional(Quantity(d.Yield), Price(d.Counterparty)),
            Venue(ii), Trader(ii))

\* (variant: Venue picked by a draw, like Counterparty)
SynthesizeRandomVenue(ii, d) ==
    Columns(ii, d, Notional(Quantity(d.Quantity), Price(d.Price)),
            ArrayGet(VenueTable, MathRound(d.Counterparty * 4, DrawGrid)),
            Trader(ii))

\* (variant: Trader picked by a draw)
SynthesizeRandomTrader(ii, d) ==
    Columns(ii, d, Notional(Quantity(d.Quantity), Price(d.Price)),
            Venue(ii),
            ArrayGet(TraderTable, MathRound(d.ExecStatus * 3, DrawGrid)))

\* The columns update() derives for the row at index ii, given that row's
\* draws d.
Synthesize(ii, d) ==
    Columns(ii, d, Notional(Quantity(d.Quantity), Price(d.Price)),
            Venue(ii), Trader(ii))

\* ------------------------------------------------------------------- state
VARIABLES
    executions,   \* the table: its rows in append order
    ticks,        \* ticks of the time table so far
    replayIi,     \* replay: the row index each of the two runs is given
    replayOut,    \* replay: per run, <<>> or <<the row it synthesized>>
    sweepDraw,    \* sweep: the next grid point to draw
    sweepOut,     \* sweep: <<>> or <<the row of the last grid point>>
    slotTally     \* sweep: per ExecStatus slot, the draws that selected it

tableVars == <<executions, ticks>>
replayVars == <<replayIi, replayOut>>
sweepVars == <<sweepDraw, sweepOut, slotTally>>
vars == <<executions, ticks, replayIi, replayOut, sweepDraw, sweepOut, slotTally>>

\* Draws explored when a row is synthesized: the two ends of the grid.
TickDraws == {0, DrawGrid - 1}

\* (variant: positions counted from 1)
NextIndexFromOne(table) == Len(table) + 1
\* ii of the row a tick adds: its position in the table, from 0.
NextIndex(table) == Len(table)

\* (variant: every row's formulas are evaluated again on each tick, as a
\* view would, with the tick's draws)
UpdateRecomputed(table, ts, d) ==
    [n \in 1..(Len(table) + 1) |->
        [ii |-> n - 1, Timestamp |-> IF n <= Len(table) THEN table[n].Timestamp ELSE ts]
            @@ Synthesize(n - 1, d)]
\* update() on an added row: the new row's columns are computed once and
\* stored; the rows already in the table are not recomputed.
Update(table, ts, d) ==
    LET ii == NextIndex(table)
    IN  Append(table, [ii |-> ii, Timestamp |-> ts] @@ Synthesize(ii, d))

TableIdle == executions = <<>> /\ ticks = 0
ReplayIdle == replayIi = <<0, 0>> /\ replayOut = <<<<>>, <<>>>>
SweepIdle == sweepDraw = 0 /\ sweepOut = <<>> /\ slotTally = [s \in 0..4 |-> 0]

\* ------------------------------------------------------- the ticking table
Init == TableIdle /\ ReplayIdle /\ SweepIdle

\* One period (PT1S) of the time table elapses.
Tick ==
    /\ ticks < MaxTicks
    /\ \E d \in [RandomColumns -> TickDraws] :
          executions' = Update(executions, ticks + 1, d)
    /\ ticks' = ticks + 1
    /\ UNCHANGED <<replayVars, sweepVars>>

Next == Tick

Spec == Init /\ [][Next]_vars

\* ------------------------------------------------------------ replay runs
\* Two runs of the column formulas, each on a row index of its own choice
\* and with its own draws.
Runs == {1, 2}
\* Row indices explored: the first ones, the first ones past a multiple of 500,
\* and the last index of six digits with the first of seven.
IndexBases == {0, 500}
Indices == {b + k : b \in IndexBases, k \in 0..MaxOffset} \cup {999999, 1000000}

InitReplay ==
    /\ replayIi \in [Runs -> Indices]
    /\ replayOut = <<<<>>, <<>>>>
    /\ TableIdle /\ SweepIdle

Replay(r) ==
    /\ replayOut[r] = <<>>
    /\ \E d \in [RandomColumns -> TickDraws] :
          replayOut' = [replayOut EXCEPT ![r] = <<Synthesize(replayIi[r], d)>>]
    /\ UNCHANGED <<replayIi, tableVars, sweepVars>>

NextReplay == \E r \in Runs : Replay(r)

SpecReplay == InitReplay /\ [][NextReplay]_vars

\* ------------------------------------------------------------------ sweep
\* One run over the whole draw grid, in order: step u synthesizes row u
\* with every one of its draws at grid point u, and tallies the slot of the
\* ExecStatus table that the draw selects.
InitSweep == SweepIdle /\ TableIdle /\ ReplayIdle

Sweep ==
    /\ sweepDraw < DrawGrid
    /\ sweepOut' = <<Synthesize(sweepDraw, [c \in RandomColumns |-> sweepDraw])>>
    /\ slotTally' = [s \in 0..4 |->
                        slotTally[s] + IF ExecStatusIndex(sweepDraw) = s THEN 1 ELSE 0]
    /\ sweepDraw' = sweepDraw + 1
    /\ UNCHANGED <<tableVars, replayVars>>

NextSweep == Sweep

SpecSweep == InitSweep /\ [][NextSweep]_vars

\* ================================================================ claims
Range(f) == {f[x] : x \in DOMAIN f}
Million == 1000000
Done(r) == replayOut[r] # <<>>
Row(r) == replayOut[r][1]

\* ---- C1 (Spec): after N ticks the table holds exactly N rows, and their
\* row indices ii, read in append order, are 0, 1, ..., N-1.
C1_IndexSequence ==
    /\ Len(executions) = ticks
    /\ \A n \in 1..Len(executions) : executions[n].ii = n - 1

C1_Witness ==
    /\ ticks = 3
    /\ Len(executions) = 3
    /\ executions[3].ii = 2
    /\ executions[3].ExecId = "EXE-000002"

\* ---- C2 (Spec): a tick adds one row at the end and leaves every row
\* already in the table as it was, random columns included.
C2_AppendOnly ==
    [][ /\ Len(executions') = Len(executions) + 1
        /\ SubSeq(executions', 1, Len(executions)) = executions ]_vars

\* Two rows whose random columns differ: the first kept its own draws.
C2_Witness ==
    /\ Len(executions) >= 2
    /\ executions[1].Quantity # executions[2].Quantity
    /\ executions[1].ExecStatus # executions[2].ExecStatus

\* ---- C3 (Spec): every row's Quantity is a positive multiple of 1,000,000
\* within [1,000,000, 50,000,000].
C3_QuantityRange ==
    \A n \in 1..Len(executions) :
        /\ executions[n].Quantity > 0
        /\ executions[n].Quantity % Million = 0
        /\ executions[n].Quantity >= 1 * Million
        /\ executions[n].Quantity <= 50 * Million

\* ---- C4 (SpecSweep): every fixed-table lookup of a row stays within its
\* table, so no column holds an out-of-range error and the row has all of
\* its fourteen columns.
ColumnNames ==
    {"ExecId", "OrderId", "Symbol", "CUSIP", "Side", "Quantity", "Price", "Yield",
     "Notional", "Venue", "Counterparty", "ExecStatus", "Trader", "Book"}

C4_LookupsInBounds ==
    \A n \in 1..Len(sweepOut) :
        LET r == sweepOut[n] IN
        /\ DOMAIN r = ColumnNames
        /\ r.Symbol \in Range(SymbolTable)
        /\ r.CUSIP \in Range(CusipTable)
        /\ r.Venue \in Range(VenueTable)
        /\ r.Counterparty \in Range(CounterpartyTable)
        /\ r.ExecStatus \in Range(ExecStatusTable)
        /\ r.Trader \in Range(TraderTable)
        /\ r.Book \in Range(BookTable)

\* The largest draws select the last entry of both draw-indexed tables.
C4_Witness ==
    /\ sweepOut # <<>>
    /\ sweepOut[1].Counterparty = "DB"
    /\ sweepOut[1].ExecStatus = "REJECTED"
    /\ sweepOut[1].ExecId = "EXE-000199"

\* ---- C5 as stated (SpecReplay): for every row index, each of the five
\* venues is a value the row's Venue can take.
C5_VenueAnyOfFive ==
    \A r \in Runs :
        Done(r) =>
            \A v \in Range(VenueTable) :
                \E d \in [RandomColumns -> TickDraws] :
                    Synthesize(replayIi[r], d).Venue = v

\* ---- C5 as amended (SpecReplay): Venue is the entry at index ii mod 5 of
\* the table D2C, D2D, ECN, RFQ, CLOB, whatever the draws: two runs on row
\* indices that agree modulo 5 produce the same Venue.
VenueOfResidue == [k \in 0..4 |-> <<"D2C", "D2D", "ECN", "RFQ", "CLOB">>[k + 1]]

C5_VenueByIndex ==
    /\ \A r \in Runs : Done(r) => Row(r).Venue = VenueOfResidue[replayIi[r] % 5]
    /\ (Done(1) /\ Done(2) /\ replayIi[1] % 5 = replayIi[2] % 5)
          => Row(1).Venue = Row(2).Venue

\* Two runs on the same index past the first five, with different draws.
C5_Witness ==
    /\ Done(1) /\ Done(2)
    /\ replayIi[1] = 504 /\ replayIi[2] = 504
    /\ Row(1).Counterparty # Row(2).Counterparty
    /\ Row(1).Venue = "CLOB" /\ Row(2).Venue = "CLOB"

\* ---- C6 (SpecSweep): over the whole draw grid each of the five slots of
\* the ExecStatus table is selected by the same share of the draws, so
\* FILLED by 3/5 of them, PARTIAL by 1/5 and REJECTED by 1/5.
C6_UniformSlots ==
    sweepDraw = DrawGrid =>
        /\ \A s \in 0..4 : 5 * slotTally[s] = DrawGrid
        /\ 5 * (slotTally[0] + slotTally[1] + slotTally[2]) = 3 * DrawGrid
        /\ 5 * slotTally[3] = DrawGrid
        /\ 5 * slotTally[4] = DrawGrid

\* ---- C7 (SpecSweep): a row's (Symbol, CUSIP) is one of the six aligned
\* pairs, the one at index ii mod 6; never a mixed pair.
AlignedPairs ==
    [k \in 0..5 |->
        << <<"UST 2Y", "91282CJL6">>, <<"UST 5Y", "91282CJM4">>,
           <<"UST 10Y", "91282CJN2">>, <<"UST 30Y", "912810TM0">>,
           <<"SOFR 3M", "91282CJP7">>, <<"TIPS 10Y", "912810TP3">> >>[k + 1]]

C7_SymbolCusipAligned ==
    \A n \in 1..Len(sweepOut) :
        <<sweepOut[n].Symbol, sweepOut[n].CUSIP>> = AlignedPairs[(sweepDraw - 1) % 6]

\* Row 11 (index 11 mod 6 = 5): the last pair, past the first wrap.
C7_Witness ==
    /\ sweepDraw = 12
    /\ sweepOut # <<>>
    /\ sweepOut[1].ExecId = "EXE-000011"
    /\ sweepOut[1].Symbol = "TIPS 10Y"
    /\ sweepOut[1].CUSIP = "912810TP3"

\* ---- C8 (Spec): in every row, with Quantity = q * 1,000,000 and
\* Price = 99 + k/128 for an integer k in 0..400, Notional is
\* q * 10,000 * (99 + k/128), from that row's own Quantity and Price.
\* In eighths: q * (7,920,000 + 625 * k).
C8_NotionalOfOwnRow ==
    \A n \in 1..Len(executions) :
        LET r == executions[n]
            q == r.Quantity \div Million
            k == r.Price - 99 * 128
        IN  /\ q \in 1..51 /\ k \in 0..400
            /\ r.Quantity = q * Million
            /\ r.Price = 99 * 128 + k
            /\ r.Notional = q * (7920000 + 625 * k)

\* Two rows with different Quantity and Price, each with its own Notional.
C8_Witness ==
    /\ Len(executions) >= 2
    /\ executions[1].Quantity = 51 * Million
    /\ executions[1].Price > 99 * 128
    /\ executions[1].Notional > 51 * 7920000
    /\ executions[2].Quantity = 1 * Million
    /\ executions[2].Price = 99 * 128
    /\ executions[2].Notional = 7920000

\* ---- C9 (SpecReplay): two runs on the same row index with any draws
\* agree on ExecId, OrderId, Symbol, CUSIP, Side, Trader and Book; Side is
\* BUY iff ii is even, Symbol and CUSIP follow ii mod 6, Trader ii mod 4,
\* Book ii mod 3, and OrderId is the same for indices equal modulo 500.
IndexColumns == {"ExecId", "OrderId", "Symbol", "CUSIP", "Side", "Trader", "Book"}

C9_IndexColumnsByIndexAlone ==
    /\ (Done(1) /\ Done(2) /\ replayIi[1] = replayIi[2])
          => \A c \in IndexColumns : Row(1)[c] = Row(2)[c]
    /\ \A r \in Runs :
          Done(r) =>
              LET ii == replayIi[r] IN
              /\ (Row(r).Side = "BUY") <=> (ii % 2 = 0)
              /\ Row(r).Side \in {"BUY", "SELL"}
              /\ <<Row(r).Symbol, Row(r).CUSIP>> = AlignedPairs[ii % 6]
              /\ Row(r).Trader = <<"JSMITH", "ADOE", "MWONG", "KPATEL">>[(ii % 4) + 1]
              /\ Row(r).Book = <<"RATES-NY", "RATES-LDN", "RATES-TKY">>[(ii % 3) + 1]
              /\ (ii = 501 => Row(r).OrderId = "ORD-0001")
              /\ (ii = 0 => Row(r).ExecId = "EXE-000000")

\* Two runs on index 501 whose random columns all differ.
C9_Witness ==
    /\ Done(1) /\ Done(2)
    /\ replayIi[1] = 501 /\ replayIi[2] = 501
    /\ Row(1).Quantity # Row(2).Quantity
    /\ Row(1).Price # Row(2).Price
    /\ Row(1).Yield # Row(2).Yield
    /\ Row(1).Counterparty # Row(2).Counterparty
    /\ Row(1).ExecStatus # Row(2).ExecStatus
    /\ Row(1).Symbol = "UST 30Y" /\ Row(1).Side = "SELL"

\* ---- C10 (SpecReplay): rows of different indices never share an ExecId,
\* indices of more than six digits included, while rows whose indices
\* differ by a multiple of 500 share their OrderId.
C10_ExecIdInjective ==
    (Done(1) /\ Done(2)) =>
        /\ (replayIi[1] # replayIi[2]) => Row(1).ExecId # Row(2).ExecId
        /\ (replayIi[1] % 500 = replayIi[2] % 500) => Row(1).OrderId = Row(2).OrderId
        /\ (replayIi[1] % 500 # replayIi[2] % 500) => Row(1).OrderId # Row(2).OrderId

\* Index 0 and the seven-digit index 1,000,000: one OrderId, two ExecIds.
C10_Witness ==
    /\ Done(1) /\ Done(2)
    /\ replayIi[1] = 0 /\ replayIi[2] = 1000000
    /\ Row(1).ExecId = "EXE-000000" /\ Row(2).ExecId = "EXE-1000000"
    /\ Row(1).OrderId = "ORD-0000" /\ Row(2).OrderId = "ORD-0000"

====
